---- MODULE Spec2Model ----
(***************************************************************************)
(* Booking bot (src/bot.py): reservation store, booking conversation,      *)
(* administrator confirm / cancel, reminder job queue and the wall clock.  *)
(*                                                                         *)
(* Time is counted in minutes.  Stored instants (starts_at, ends_at,       *)
(* created_at, job fire times, now) are UTC minutes since 00:00 UTC of day *)
(* 0; local dates are day numbers (day 0 is a Monday) and local times of   *)
(* day are minutes since local midnight.                                   *)
(***************************************************************************)
EXTENDS Integers, Sequences, FiniteSets, TLC

\* ------------------------------------------------------------ configuration
RESERVATION_DURATION_MIN == 120
TIME_SLOT_STEP_MIN == 30
MIN_ADVANCE_DAYS == 1
ONLY_TOMORROW == FALSE
REMINDER_HOURS_BEFORE == 2
DAILY_RESERVATION_LIMIT == 2
AUTO_CONFIRM_MAX_PARTY == 4
RES_LIMIT_SCOPE == "global"
\* LOCAL_TZ = Europe/Moscow: local time is UTC + 3 h all year
UTC_OFFSET_MIN == 180
MinutesPerDay == 1440
MinutesPerHour == 60

\* None (no table, no row, no value); ids, dates and times are never negative
NULL == -1

\* BLOCKED_DATES: the configured block-list (local day numbers)
BLOCKED_DATES == {2}

\* WEEKLY_RULES: weekday -> <<open, last>> in minutes of the local day
WEEKLY_RULES ==
    [wd \in 0..6 |->
        CASE wd \in 0..3 -> <<960, 1350>>
          [] wd = 4      -> <<960, 1410>>
          [] wd = 5      -> <<840, 1410>>
          [] wd = 6      -> <<840, 1350>>]

\* the venue's tables (rows of the tables relation)
Tables == { [id |-> 1, capacity |-> 2], [id |-> 2, capacity |-> 6] }

\* ------------------------------------------------------------------ bounds
\* most reservation rows ever inserted
MaxRes == 2
\* the per-reservation count of reminder messages saturates here
SentCap == 2

\* chat ids of the guests who talk to the bot
Chats == {11}
\* texts a guest may type at the date, party and time steps (parsed values;
\* NULL is a text the parser rejects)
DateInputs == {NULL, 0, 1, 2}
PartyInputs == {0, 2, 5}
TimeInputs == {NULL, 900, 960, 1080}
\* instants at which the clock is observed: 13:00 local of day 0, two hours
\* before the 16:00 slot of day 1, and the start of that slot (which is two
\* hours before the 18:00 slot)
TimePoints == {600, 2100, 2220}

VARIABLES
    now,            \* the wall clock (UTC minutes)
    users,          \* users relation: sequence of chat_id, id = position
    reservations,   \* reservations relation: sequence of rows, id = position
    jobs,           \* app.job_queue: sequence of live one-shot jobs
    sent,           \* per reservation id: reminder messages sent so far
    conv,           \* per chat: conversation state, and the keys of
                    \* context.user_data written in this conversation
    last,           \* what the handler that ran last did
    startup         \* on_startup: where it stands, and the rows it read

vars == <<now, users, reservations, jobs, sent, conv, last, startup>>

\* ------------------------------------------------------------ pure helpers
Min(a, b) == IF a <= b THEN a ELSE b

\* datetime.now(LOCAL_TZ).date()
LocalDate(t) == (t + UTC_OFFSET_MIN) \div MinutesPerDay

\* d.weekday(), day 0 being a Monday
Weekday(d) == d % 7

\* a local wall time (minutes since local midnight of day 0) as a UTC instant
_utc_iso(dt_local) == dt_local - UTC_OFFSET_MIN

\* datetime.combine(d, t).replace(tzinfo=LOCAL_TZ)
CombineLocal(d, t) == d * MinutesPerDay + t

\* UTC bounds [start, end) of the local calendar date d
_utc_bounds_for_local_date(d) ==
    LET start_local == CombineLocal(d, 0)
        end_local == start_local + MinutesPerDay
    IN  <<_utc_iso(start_local), _utc_iso(end_local)>>

\* SlotsFrom that stops before the last start time
RECURSIVE SlotsFrom_Exclusive(_, _)
SlotsFrom_Exclusive(cur, lastT) ==
    IF cur < lastT
    THEN <<cur>> \o SlotsFrom_Exclusive(cur + TIME_SLOT_STEP_MIN, lastT)
    ELSE <<>>

\* the loop of _slots_for_date
RECURSIVE SlotsFrom(_, _)
SlotsFrom(cur, lastT) ==
    IF cur <= lastT
    THEN <<cur>> \o SlotsFrom(cur + TIME_SLOT_STEP_MIN, lastT)
    ELSE <<>>

\* the body of _slots_for_date under a table of weekly rules: a weekday the
\* table does not list has the window (None, None) and no slots
slots_under(rules, d) ==
    IF Weekday(d) \notin DOMAIN rules
    THEN <<>>
    ELSE SlotsFrom(rules[Weekday(d)][1], rules[Weekday(d)][2])

\* the bookable local start times of date d
_slots_for_date(d) == slots_under(WEEKLY_RULES, d)

Range(s) == {s[i] : i \in DOMAIN s}

\* ------------------------------------------------------------ store queries
ResIds == DOMAIN reservations

\* sb_get_reservation: the row of that id; there is none (the query returns
\* None) when res_id is not in ResIds
sb_get_reservation(res_id) == reservations[res_id]

\* sb_get_user: chat id of a users row (rows are never deleted)
sb_get_user(user_id) ==
    IF user_id \in DOMAIN users THEN users[user_id] ELSE NULL

\* sb_reserved_table_ids with both interval tests inclusive
sb_reserved_table_ids_Closed(starts, ends) ==
    LET rows == {i \in ResIds :
                    /\ reservations[i].status \in {"pending", "confirmed"}
                    /\ reservations[i].starts_at <= ends
                    /\ reservations[i].ends_at >= starts}
    IN  ({reservations[i].table_id : i \in rows}
            \cup {reservations[i].joined_table_id : i \in rows}) \ {NULL}

\* ids of the tables held in [starts, ends) by pending or confirmed rows,
\* by table_id and by joined_table_id
sb_reserved_table_ids(starts, ends) ==
    LET rows == {i \in ResIds :
                    /\ reservations[i].status \in {"pending", "confirmed"}
                    /\ reservations[i].starts_at < ends
                    /\ reservations[i].ends_at > starts}
    IN  ({reservations[i].table_id : i \in rows}
            \cup {reservations[i].joined_table_id : i \in rows}) \ {NULL}

\* sb_find_available_table that scans the tables in no particular order
sb_find_available_table_AnyFit(party_size, starts, ends) ==
    LET free == {t \in Tables :
                    /\ t.capacity >= party_size
                    /\ t.id \notin sb_reserved_table_ids(starts, ends)}
    IN  IF free = {} THEN {NULL} ELSE {t.id : t \in free}

\* sb_find_available_table: the ids of the rows a capacity-ascending scan may
\* return first (tables of equal capacity come in an order the store picks),
\* or {NULL} when every table that fits is held
sb_find_available_table(party_size, starts, ends) ==
    LET reserved_ids == sb_reserved_table_ids(starts, ends)
        free == {t \in Tables :
                    t.capacity >= party_size /\ t.id \notin reserved_ids}
        first == {t \in free : \A u \in free : t.capacity <= u.capacity}
    IN  IF first = {} THEN {NULL} ELSE {t.id : t \in first}

\* sb_count_reservations_in_day
sb_count_reservations_in_day(day_start, day_end, user_id) ==
    Cardinality({i \in ResIds :
        /\ reservations[i].status \in {"confirmed", "pending"}
        /\ reservations[i].created_at >= day_start
        /\ reservations[i].created_at < day_end
        /\ (user_id # NULL => reservations[i].user_id = user_id)})

\* sb_ensure_user: the users relation after the lookup-or-create
UsersAfterEnsure(chat_id) ==
    IF chat_id \in Range(users) THEN users ELSE Append(users, chat_id)

\* sb_ensure_user: the id it returns
sb_ensure_user(chat_id) ==
    LET us == UsersAfterEnsure(chat_id)
    IN  CHOOSE i \in DOMAIN us : us[i] = chat_id

\* ------------------------------------------------------------ observations
\* last: the handler that ran, its argument (chat or reservation id), the
\* answer given to the caller, and the chat a further message was sent to
DidTell(op, arg, reply, told) ==
    [op |-> op, arg |-> arg, reply |-> reply, told |-> told]

Did(op, arg, reply) == DidTell(op, arg, reply, NULL)

\* ------------------------------------------------------------ initial state
NoData == [date |-> NULL, party |-> NULL, time |-> NULL, starts_local |-> NULL]

\* on_startup has not been called
NotStarted == [pc |-> "idle", rows |-> <<>>, yielded |-> FALSE]

Init ==
    /\ now = 600
    /\ users = <<>>
    /\ reservations = <<>>
    /\ jobs = <<>>
    /\ sent = <<>>
    /\ conv = [c \in Chats |-> [state |-> "END", data |-> NoData]]
    /\ last = Did("start", NULL, "")
    /\ startup = NotStarted

\* ------------------------------------------------------- booking conversation
\* user_data keeps its keys when a conversation ends, but every key is
\* written again before it is next read (date, party, time and starts_local
\* at the date, party, time and comment steps), so a conversation that
\* starts or ends carries none of them
Say(c, op, reply, state) ==
    /\ conv' = [conv EXCEPT ![c].state = state,
                            ![c].data = IF state \in {"END", "DATE"}
                                        THEN NoData ELSE @]
    /\ last' = Did(op, c, reply)

\* _date_choices: the dates _date_keyboard puts on the keyboard /book shows
_date_choices ==
    LET first == LocalDate(now) + MIN_ADVANCE_DAYS
    IN  IF ONLY_TOMORROW THEN {first} ELSE {first + i : i \in 0..9}

\* the last message of a handler that has read or written the store: it is
\* sent and the handler returns the next state, or the send raises, the
\* handler ends there and the conversation stays in the state it was in
SayOrRaise(c, op, reply, state) ==
    \/ Say(c, op, reply, state)
    \/ /\ UNCHANGED conv
       /\ last' = Did(op, c, reply)

\* /book: entry point, also re-entered from any step (allow_reentry)
book(c) ==
    /\ Say(c, "book", "ask_date", "DATE")
    /\ UNCHANGED <<now, users, reservations, jobs, sent, startup>>

\* the date step
book_date(c, d) ==
    /\ conv[c].state = "DATE"
    /\ LET today == LocalDate(now)
           min_date == today + MIN_ADVANCE_DAYS
       IN  IF d \in BLOCKED_DATES
           THEN Say(c, "book_date", "blocked", "DATE")
           ELSE IF d = NULL
           THEN Say(c, "book_date", "bad_date", "DATE")
           ELSE IF d < min_date
           THEN Say(c, "book_date", "too_early", "DATE")
           ELSE IF ONLY_TOMORROW /\ d # min_date
           THEN Say(c, "book_date", "only_tomorrow", "DATE")
           ELSE IF _slots_for_date(d) = <<>>
           THEN Say(c, "book_date", "closed", "DATE")
           ELSE /\ conv' = [conv EXCEPT ![c].state = "PARTY",
                                        ![c].data.date = d]
                /\ last' = Did("book_date", c, "ask_party")
    /\ UNCHANGED <<now, users, reservations, jobs, sent, startup>>

\* the party-size step
book_party(c, party) ==
    /\ conv[c].state = "PARTY"
    /\ IF party <= 0
       THEN Say(c, "book_party", "bad_party", "PARTY")
       ELSE /\ conv' = [conv EXCEPT ![c].state = "TIME_STATE",
                                    ![c].data.party = party]
            /\ last' = Did("book_party", c, "ask_time")
    /\ UNCHANGED <<now, users, reservations, jobs, sent, startup>>

\* book_time that asks for the pre-order whether or not a table was found
book_time_AlwaysAdvances(c, t) ==
    /\ conv[c].state = "TIME_STATE"
    /\ LET d == conv[c].data.date
       IN  IF t = NULL \/ d = NULL
           THEN Say(c, "book_time", "bad_time", "TIME_STATE")
           ELSE IF t \notin Range(_slots_for_date(d))
           THEN Say(c, "book_time", "not_a_slot", "TIME_STATE")
           ELSE /\ conv' = [conv EXCEPT ![c].state = "SETS",
                                        ![c].data.time = t]
                /\ last' = Did("book_time", c, "ask_sets")
    /\ UNCHANGED <<now, users, reservations, jobs, sent, startup>>

\* the time step
book_time(c, t) ==
    /\ conv[c].state = "TIME_STATE"
    /\ LET d == conv[c].data.date
       IN  IF t = NULL \/ d = NULL
           THEN Say(c, "book_time", "bad_time", "TIME_STATE")
           ELSE IF t \notin Range(_slots_for_date(d))
           THEN Say(c, "book_time", "not_a_slot", "TIME_STATE")
           ELSE LET starts_local == CombineLocal(d, t)
                    ends_local == starts_local + RESERVATION_DURATION_MIN
                IN  \E table \in sb_find_available_table(
                            conv[c].data.party,
                            _utc_iso(starts_local), _utc_iso(ends_local)) :
                        IF table = NULL
                        THEN /\ conv' = [conv EXCEPT ![c].data.time = t]
                             /\ last' = Did("book_time", c, "no_table")
                        ELSE /\ conv' = [conv EXCEPT ![c].state = "SETS",
                                                     ![c].data.time = t]
                             /\ last' = Did("book_time", c, "ask_sets")
    /\ UNCHANGED <<now, users, reservations, jobs, sent, startup>>

\* the pre-order, name and phone steps (book_sets, book_name, book_phone)
\* with inputs that pass validation: set_count, name and phone take no part
\* in any decision, and the three steps read and write nothing else
book_sets_name_phone(c) ==
    /\ conv[c].state = "SETS"
    /\ Say(c, "book_phone", "ask_comment", "COMMENT")
    /\ UNCHANGED <<now, users, reservations, jobs, sent, startup>>

\* the comment step: derives starts_local (ends_local is starts_local plus
\* the reservation duration)
book_comment(c) ==
    /\ conv[c].state = "COMMENT"
    /\ conv' = [conv EXCEPT
            ![c].state = "CONFIRM",
            ![c].data.starts_local =
                CombineLocal(conv[c].data.date, conv[c].data.time)]
    /\ last' = Did("book_comment", c, "preview")
    /\ UNCHANGED <<now, users, reservations, jobs, sent, startup>>

\* /cancel: the conversation's fallback
cancel(c) ==
    /\ conv[c].state # "END"
    /\ Say(c, "cancel", "canceled", "END")
    /\ UNCHANGED <<now, users, reservations, jobs, sent, startup>>

\* the row sb_insert_reservation posts; created_at is the store's clock
NewRow(user_id, table_id, party_size, starts, ends, status) ==
    [user_id |-> user_id, table_id |-> table_id, joined_table_id |-> NULL,
     party_size |-> party_size, starts_at |-> starts, ends_at |-> ends,
     status |-> status, created_at |-> now]

\* sb_insert_reservation
sb_insert_reservation(user_id, table_id, party_size, starts, ends, status) ==
    /\ reservations' = Append(reservations,
            NewRow(user_id, table_id, party_size, starts, ends, status))
    /\ sent' = Append(sent, 0)

\* limit_reached with the comparison off by one
limit_reached_OffByOne(current_count) ==
    current_count >= DAILY_RESERVATION_LIMIT - 1

\* the daily-limit test of the final step
limit_reached(current_count) == current_count >= DAILY_RESERVATION_LIMIT

\* should_auto_confirm without the party-size test
should_auto_confirm_AnyParty(party, table) == table # NULL

\* the auto-confirmation test of the final step
should_auto_confirm(party, table) ==
    party <= AUTO_CONFIRM_MAX_PARTY /\ table # NULL

\* the final step: the inline button of the preview
confirm_callback(c, data) ==
    /\ conv[c].state = "CONFIRM"
    /\ IF data = "confirm_no"
       THEN /\ Say(c, "confirm_callback", "start_over", "END")
            /\ UNCHANGED <<users, reservations, sent>>
       ELSE
        LET starts_local == conv[c].data.starts_local
            ends_local == starts_local + RESERVATION_DURATION_MIN
            starts_utc_iso == _utc_iso(starts_local)
            ends_utc_iso == _utc_iso(ends_local)
            user_id == sb_ensure_user(c)
            today == LocalDate(now)
            bounds == _utc_bounds_for_local_date(today)
            user_id_for_limit == IF RES_LIMIT_SCOPE = "per_user" THEN user_id ELSE NULL
            current_count == sb_count_reservations_in_day(
                                bounds[1], bounds[2], user_id_for_limit)
            party == conv[c].data.party
        IN  /\ users' = UsersAfterEnsure(c)
            /\ IF limit_reached(current_count)
               THEN /\ SayOrRaise(c, "confirm_callback", "limit", "END")
                    /\ UNCHANGED <<reservations, sent>>
               ELSE \E table \in sb_find_available_table(
                                    party, starts_utc_iso, ends_utc_iso) :
                    LET table_id == table
                        status_for_insert ==
                            IF should_auto_confirm(party, table)
                            THEN "confirmed" ELSE "pending"
                    IN  /\ sb_insert_reservation(user_id, table_id, party,
                                starts_utc_iso, ends_utc_iso,
                                status_for_insert)
                        /\ SayOrRaise(c, "confirm_callback",
                                      status_for_insert, "END")
    /\ UNCHANGED <<now, jobs, startup>>

\* ------------------------------------------------------------------ reminders
JobsNamed(res_id) == {k \in DOMAIN jobs : jobs[k].name = res_id}

\* the queue without the jobs named reminder_<res_id>
WithoutJobs(res_id) == SelectSeq(jobs, LAMBDA j : j.name # res_id)

\* one more reminder message sent for res_id
SendReminder(res_id) ==
    sent' = [sent EXCEPT ![res_id] = Min(@ + 1, SentCap)]

\* _schedule_or_send_reminder that registers no job
_schedule_or_send_reminder_NoTimer(res_id, user_chat_id, starts_utc) ==
    LET when == starts_utc - REMINDER_HOURS_BEFORE * MinutesPerHour
    IN  IF when <= now /\ starts_utc > now
        THEN /\ jobs' = WithoutJobs(res_id)
             /\ SendReminder(res_id)
        ELSE /\ jobs' = WithoutJobs(res_id)
             /\ UNCHANGED sent

\* _schedule_or_send_reminder that leaves the jobs of that name in the queue
_schedule_or_send_reminder_KeepOld(res_id, user_chat_id, starts_utc) ==
    LET when == starts_utc - REMINDER_HOURS_BEFORE * MinutesPerHour
    IN  IF when <= now /\ starts_utc > now
        THEN /\ UNCHANGED jobs
             /\ SendReminder(res_id)
        ELSE IF when > now
        THEN /\ jobs' = Append(jobs,
                    [name |-> res_id, when |-> when,
                     user_chat_id |-> user_chat_id])
             /\ UNCHANGED sent
        ELSE /\ UNCHANGED jobs
             /\ UNCHANGED sent

\* _schedule_or_send_reminder that keeps a job already registered under that
\* name instead of replacing it
_schedule_or_send_reminder_KeepFirst(res_id, user_chat_id, starts_utc) ==
    LET when == starts_utc - REMINDER_HOURS_BEFORE * MinutesPerHour
    IN  IF when <= now /\ starts_utc > now
        THEN /\ jobs' = WithoutJobs(res_id)
             /\ SendReminder(res_id)
        ELSE IF when > now /\ JobsNamed(res_id) = {}
        THEN /\ jobs' = Append(jobs,
                    [name |-> res_id, when |-> when,
                     user_chat_id |-> user_chat_id])
             /\ UNCHANGED sent
        ELSE /\ UNCHANGED jobs
             /\ UNCHANGED sent

\* _schedule_or_send_reminder that sends at once whenever the fire time has
\* passed, without looking at the start time
_schedule_or_send_reminder_SendPast(res_id, user_chat_id, starts_utc) ==
    LET when == starts_utc - REMINDER_HOURS_BEFORE * MinutesPerHour
    IN  IF when <= now
        THEN /\ jobs' = WithoutJobs(res_id)
             /\ SendReminder(res_id)
        ELSE /\ jobs' = Append(WithoutJobs(res_id),
                    [name |-> res_id, when |-> when,
                     user_chat_id |-> user_chat_id])
             /\ UNCHANGED sent

\* _schedule_or_send_reminder: drop the jobs of that name, then send at once,
\* register a one-shot job, or do neither
_schedule_or_send_reminder(res_id, user_chat_id, starts_utc) ==
    LET when == starts_utc - REMINDER_HOURS_BEFORE * MinutesPerHour
    IN  IF when <= now /\ starts_utc > now
        THEN /\ jobs' = WithoutJobs(res_id)
             /\ SendReminder(res_id)
        ELSE IF when > now
        THEN /\ jobs' = Append(WithoutJobs(res_id),
                    [name |-> res_id, when |-> when,
                     user_chat_id |-> user_chat_id])
             /\ UNCHANGED sent
        ELSE /\ jobs' = WithoutJobs(res_id)
             /\ UNCHANGED sent

\* reminder_job that sends without reading the reservation again
reminder_job_NoRecheck(k) ==
    /\ k \in DOMAIN jobs
    /\ jobs[k].when <= now
    /\ jobs' = [i \in 1..(Len(jobs) - 1) |->
                    IF i < k THEN jobs[i] ELSE jobs[i + 1]]
    /\ SendReminder(jobs[k].name)
    /\ last' = DidTell("reminder_job", jobs[k].name, "reminded",
                       jobs[k].user_chat_id)
    /\ UNCHANGED <<now, users, reservations, conv, startup>>

\* reminder_job: the job queue runs job k once its fire time has come; the
\* job leaves the queue and the reservation is read again before sending
reminder_job(k) ==
    /\ k \in DOMAIN jobs
    /\ jobs[k].when <= now
    /\ jobs' = [i \in 1..(Len(jobs) - 1) |->
                    IF i < k THEN jobs[i] ELSE jobs[i + 1]]
    /\ LET res_id == jobs[k].name
           r == sb_get_reservation(res_id)
       IN  IF res_id \notin ResIds \/ r.status # "confirmed"
           THEN /\ UNCHANGED sent
                /\ last' = Did("reminder_job", res_id, "stale_status")
           ELSE IF r.starts_at <= now
           THEN /\ UNCHANGED sent
                /\ last' = Did("reminder_job", res_id, "stale_time")
           ELSE /\ SendReminder(res_id)
                /\ last' = DidTell("reminder_job", res_id, "reminded",
                                   jobs[k].user_chat_id)
    /\ UNCHANGED <<now, users, reservations, conv, startup>>

\* ---------------------------------------------------------- administrator
\* sb_update_reservation
sb_update_reservation(res_id, table_id, status) ==
    reservations' = [reservations EXCEPT ![res_id].table_id = table_id,
                                         ![res_id].status = status]

\* confirm_and_notify that sends first and writes only if the send went out
confirm_and_notify_SendFirst(res_id, table_id) ==
    LET row == sb_get_reservation(res_id)
        u == sb_get_user(row.user_id)
    IN  \E reached \in BOOLEAN :
            IF reached
            THEN /\ sb_update_reservation(res_id, table_id, "confirmed")
                 /\ _schedule_or_send_reminder(res_id, u, row.starts_at)
                 /\ last' = DidTell("admin_confirm", res_id, "confirmed", u)
            ELSE /\ UNCHANGED <<reservations, jobs, sent>>
                 /\ last' = Did("admin_confirm", res_id, "confirmed")

\* the tail of /confirm: the update, then the reminder and the messages; the
\* requester is not reached when the reply to the administrator raises or
\* the send to the requester fails (caught and logged)
confirm_and_notify(res_id, table_id) ==
    LET row == sb_get_reservation(res_id)
        u == sb_get_user(row.user_id)
    IN  /\ sb_update_reservation(res_id, table_id, "confirmed")
        /\ IF u = NULL
           THEN /\ last' = Did("admin_confirm", res_id, "no_user")
                /\ UNCHANGED <<jobs, sent>>
           ELSE /\ _schedule_or_send_reminder(res_id, u, row.starts_at)
                /\ \E reached \in BOOLEAN :
                    last' = DidTell("admin_confirm", res_id, "confirmed",
                                    IF reached THEN u ELSE NULL)

\* confirm_refused that goes on to the update (the return left out)
confirm_refused_FallThrough(res_id) == confirm_and_notify(res_id, NULL)

\* confirm_refused that writes the status although no table was found
confirm_refused_ConfirmsAnyway(res_id) ==
    /\ sb_update_reservation(res_id, NULL, "confirmed")
    /\ last' = Did("admin_confirm", res_id, "no_table")
    /\ UNCHANGED <<jobs, sent>>

\* /confirm finds no table: it answers and returns
confirm_refused(res_id) ==
    /\ last' = Did("admin_confirm", res_id, "no_table")
    /\ UNCHANGED <<reservations, jobs, sent>>

\* admin_confirm that asks the resolver for a table whether or not one is
\* bound
admin_confirm_AlwaysResolves(res_id) ==
    LET row == sb_get_reservation(res_id)
    IN  /\ IF res_id \notin ResIds
           THEN /\ last' = Did("admin_confirm", res_id, "not_found")
                /\ UNCHANGED <<reservations, jobs, sent>>
           ELSE IF row.status = "confirmed"
           THEN /\ last' = Did("admin_confirm", res_id, "already_confirmed")
                /\ UNCHANGED <<reservations, jobs, sent>>
           ELSE
            LET starts_utc == row.starts_at
                ends_utc == starts_utc + RESERVATION_DURATION_MIN
            IN  \E table \in sb_find_available_table(
                                row.party_size, starts_utc, ends_utc) :
                    IF table = NULL
                    THEN confirm_refused(res_id)
                    ELSE confirm_and_notify(res_id, table)
        /\ UNCHANGED <<now, users, conv, startup>>

\* /confirm <res_id>, sent by an administrator
admin_confirm(res_id) ==
    LET row == sb_get_reservation(res_id)
    IN  /\ IF res_id \notin ResIds
           THEN /\ last' = Did("admin_confirm", res_id, "not_found")
                /\ UNCHANGED <<reservations, jobs, sent>>
           ELSE IF row.status = "confirmed"
           THEN /\ last' = Did("admin_confirm", res_id, "already_confirmed")
                /\ UNCHANGED <<reservations, jobs, sent>>
           ELSE
            LET starts_utc == row.starts_at
                ends_utc == starts_utc + RESERVATION_DURATION_MIN
            IN  IF row.table_id = NULL
                THEN \E table \in sb_find_available_table(
                                    row.party_size, starts_utc, ends_utc) :
                        IF table = NULL
                        THEN confirm_refused(res_id)
                        ELSE confirm_and_notify(res_id, table)
                ELSE confirm_and_notify(res_id, row.table_id)
        /\ UNCHANGED <<now, users, conv, startup>>

\* admin_cancel without the test for a reservation already canceled
admin_cancel_NoGuard(res_id) ==
    LET row == sb_get_reservation(res_id)
    IN  /\ IF res_id \notin ResIds
           THEN /\ last' = Did("admin_cancel", res_id, "not_found")
                /\ UNCHANGED reservations
           ELSE /\ sb_update_reservation(res_id, row.table_id, "canceled")
                /\ last' = DidTell("admin_cancel", res_id, "canceled",
                                   sb_get_user(row.user_id))
        /\ UNCHANGED <<now, users, jobs, sent, conv, startup>>

\* admin_cancel that also clears the table binding
admin_cancel_ClearsTable(res_id) ==
    LET row == sb_get_reservation(res_id)
    IN  /\ IF res_id \notin ResIds
           THEN /\ last' = Did("admin_cancel", res_id, "not_found")
                /\ UNCHANGED reservations
           ELSE IF row.status = "canceled"
           THEN /\ last' = Did("admin_cancel", res_id, "already_canceled")
                /\ UNCHANGED reservations
           ELSE /\ sb_update_reservation(res_id, NULL, "canceled")
                /\ last' = DidTell("admin_cancel", res_id, "canceled",
                                   sb_get_user(row.user_id))
        /\ UNCHANGED <<now, users, jobs, sent, conv, startup>>

\* admin_cancel that takes the row before the id typed (ids counted from 0)
admin_cancel_OffByOneId(res_id) ==
    LET id == res_id - 1
        row == sb_get_reservation(id)
    IN  /\ IF id \notin ResIds
           THEN /\ last' = Did("admin_cancel", res_id, "not_found")
                /\ UNCHANGED reservations
           ELSE IF row.status = "canceled"
           THEN /\ last' = Did("admin_cancel", res_id, "already_canceled")
                /\ UNCHANGED reservations
           ELSE /\ sb_update_reservation(id, row.table_id, "canceled")
                /\ \E reached \in BOOLEAN :
                    last' = DidTell("admin_cancel", res_id, "canceled",
                                    IF reached THEN sb_get_user(row.user_id)
                                    ELSE NULL)
        /\ UNCHANGED <<now, users, jobs, sent, conv, startup>>

\* /cancel_res <res_id>, sent by an administrator; the requester is not
\* reached when the reply to the administrator raises or the send fails
admin_cancel(res_id) ==
    LET row == sb_get_reservation(res_id)
    IN  /\ IF res_id \notin ResIds
           THEN /\ last' = Did("admin_cancel", res_id, "not_found")
                /\ UNCHANGED reservations
           ELSE IF row.status = "canceled"
           THEN /\ last' = Did("admin_cancel", res_id, "already_canceled")
                /\ UNCHANGED reservations
           ELSE /\ sb_update_reservation(res_id, row.table_id, "canceled")
                /\ \E reached \in BOOLEAN :
                    last' = DidTell("admin_cancel", res_id, "canceled",
                                    IF reached THEN sb_get_user(row.user_id)
                                    ELSE NULL)
        /\ UNCHANGED <<now, users, jobs, sent, conv, startup>>

\* ------------------------------------------------------------- environment
\* the status stopped is written from outside the bot (administrative
\* override on the store)
StopOutOfBand(res_id) ==
    /\ res_id \in ResIds
    /\ reservations[res_id].status \in {"pending", "confirmed"}
    /\ reservations' = [reservations EXCEPT ![res_id].status = "stopped"]
    /\ last' = Did("stop", res_id, "stopped")
    /\ UNCHANGED <<now, users, jobs, sent, conv, startup>>

\* the clock reaches the next observed instant; a job whose fire time has
\* come runs before the clock moves on
Tick ==
    /\ \A k \in DOMAIN jobs : jobs[k].when > now
    /\ \E t \in TimePoints :
        /\ t > now
        /\ \A u \in TimePoints : u > now => t <= u
        /\ now' = t
    /\ last' = Did("tick", NULL, "")
    /\ UNCHANGED <<users, reservations, jobs, sent, conv, startup>>

\* main: the process starts again. The job queue and the conversations live
\* in memory and are lost; build_app registers the handlers and nothing that
\* would run at start-up
Restart ==
    /\ jobs' = <<>>
    /\ conv' = [c \in Chats |-> [state |-> "END", data |-> NoData]]
    /\ last' = Did("restart", NULL, "")
    /\ UNCHANGED <<now, users, reservations, sent, startup>>

\* ---------------------------------------------------------- specification
\* reservation ids an administrator may type: those in use and one more
AdminArgs == 1..(Len(reservations) + 1)

\* the running bot: its handlers, its job queue and the clock
BotStep ==
    \/ \E c \in Chats : book(c)
    \/ \E c \in Chats, d \in DateInputs : book_date(c, d)
    \/ \E c \in Chats, p \in PartyInputs : book_party(c, p)
    \/ \E c \in Chats, t \in TimeInputs : book_time(c, t)
    \/ \E c \in Chats : book_sets_name_phone(c)
    \/ \E c \in Chats : book_comment(c)
    \/ \E c \in Chats : cancel(c)
    \/ \E c \in Chats, data \in {"confirm_yes", "confirm_no"} :
            /\ confirm_callback(c, data)
            /\ Len(reservations') <= MaxRes
    \/ \E res_id \in AdminArgs : admin_confirm(res_id)
    \/ \E res_id \in AdminArgs : admin_cancel(res_id)
    \/ \E k \in DOMAIN jobs : reminder_job(k)
    \/ Tick

Next ==
    \/ BotStep
    \/ Restart
    \/ \E res_id \in ResIds : StopOutOfBand(res_id)

\* the bot, restarts of its process, and the out-of-band override
Spec == Init /\ [][Next]_vars

\* one run of the process, with nothing written to the store from outside
SpecRun == Init /\ [][BotStep]_vars

\* --------------------------------------------- the reminder scheduler alone
\* start times _schedule_or_send_reminder is called with: the 16:00, 18:00
\* and 20:00 slots of day 1
StartInputs == {2220, 2340, 2460}

\* a row of the reservations relation
Row(user_id, table_id, joined_table_id, party_size, starts, status, created) ==
    [user_id |-> user_id, table_id |-> table_id,
     joined_table_id |-> joined_table_id, party_size |-> party_size,
     starts_at |-> starts, ends_at |-> starts + RESERVATION_DURATION_MIN,
     status |-> status, created_at |-> created]

\* the store after guest 11 booked table 1 for two at 16:00 and at 18:00 of
\* day 1 (both auto-confirmed); no job is registered yet
InitTimer ==
    /\ now = 600
    /\ users = <<11>>
    /\ reservations = << Row(1, 1, NULL, 2, 2220, "confirmed", 600),
                         Row(1, 1, NULL, 2, 2340, "confirmed", 600) >>
    /\ jobs = <<>>
    /\ sent = <<0, 0>>
    /\ conv = [c \in Chats |-> [state |-> "END", data |-> NoData]]
    /\ last = Did("start", NULL, "")
    /\ startup = NotStarted

\* one call of _schedule_or_send_reminder; last also keeps the start time
\* passed and the fire times of the jobs the call found under that name
schedule_call(res_id, starts_utc) ==
    /\ _schedule_or_send_reminder(res_id,
            sb_get_user(reservations[res_id].user_id), starts_utc)
    /\ last' = [op |-> "_schedule_or_send_reminder", arg |-> res_id,
                reply |-> "", told |-> NULL, starts_utc |-> starts_utc,
                found |-> {jobs[k].when : k \in JobsNamed(res_id)}]
    /\ UNCHANGED <<now, users, reservations, conv, startup>>

NextTimer ==
    \/ \E res_id \in ResIds, starts_utc \in StartInputs :
            schedule_call(res_id, starts_utc)
    \/ \E k \in DOMAIN jobs : reminder_job(k)
    \/ Tick

\* the scheduler called at will, the job queue and the clock
SpecTimer == InitTimer /\ [][NextTimer]_vars

\* ------------------------------------------------- the store queries alone
\* the rows the store may hold: written by the bot or from outside it
\* (joined_table_id and the status stopped are never written by the bot)
RowInputs ==
    {Row(1, tj[1], tj[2], 2, starts, status, 600) :
        tj \in {<<NULL, NULL>>, <<1, NULL>>, <<2, NULL>>, <<1, 2>>},
        starts \in {2220, 2340},
        status \in {"pending", "confirmed", "canceled", "stopped"}}

\* interval bounds, party sizes, rule tables and dates the queries are
\* asked with
QueryTimes == {2100, 2220, 2340, 2460}
QueryParties == {2, 5, 7}
RuleInputs ==
    {WEEKLY_RULES,
     [wd \in {0, 1} |-> IF wd = 0 THEN <<960, 960>> ELSE <<960, 1040>>],
     [wd \in {5} |-> <<900, 840>>]}
QueryDates == 0..6

InitStore ==
    /\ now = 600
    /\ users = <<11>>
    /\ \E n \in 0..MaxRes : reservations \in [1..n -> RowInputs]
    /\ jobs = <<>>
    /\ sent = [i \in DOMAIN reservations |-> 0]
    /\ conv = [c \in Chats |-> [state |-> "END", data |-> NoData]]
    /\ last = Did("start", NULL, "")
    /\ startup = NotStarted

\* a query asked and what it returned
Asked(op, args, result) ==
    [op |-> op, arg |-> NULL, reply |-> "", told |-> NULL,
     args |-> args, result |-> result]

find_table_call(party_size, starts, ends) ==
    /\ \E table \in sb_find_available_table(party_size, starts, ends) :
        last' = Asked("sb_find_available_table",
                      <<party_size, starts, ends>>, table)
    /\ UNCHANGED <<now, users, reservations, jobs, sent, conv, startup>>

reserved_ids_call(starts, ends) ==
    /\ last' = Asked("sb_reserved_table_ids", <<starts, ends>>,
                     sb_reserved_table_ids(starts, ends))
    /\ UNCHANGED <<now, users, reservations, jobs, sent, conv, startup>>

slots_call(rules, d) ==
    /\ last' = Asked("_slots_for_date", <<rules, d>>, slots_under(rules, d))
    /\ UNCHANGED <<now, users, reservations, jobs, sent, conv, startup>>

NextStore ==
    \/ \E party_size \in QueryParties, starts \in QueryTimes,
          ends \in QueryTimes :
            starts < ends /\ find_table_call(party_size, starts, ends)
    \/ \E starts \in QueryTimes, ends \in QueryTimes :
            starts < ends /\ reserved_ids_call(starts, ends)
    \/ \E rules \in RuleInputs, d \in QueryDates : slots_call(rules, d)

\* the read-only queries asked of any store
SpecStore == InitStore /\ [][NextStore]_vars

\* ------------------------------------------------- two guests, one evening
\* the chat ids of two guests
Guests == {11, 12}

InitGuests ==
    /\ now = 600
    /\ users = <<>>
    /\ reservations = <<>>
    /\ jobs = <<>>
    /\ sent = <<>>
    /\ conv = [c \in Guests |-> [state |-> "END", data |-> NoData]]
    /\ last = Did("start", NULL, "")
    /\ startup = NotStarted

\* the booking conversation of each guest, for parties of two
NextGuests ==
    \/ \E c \in Guests : book(c)
    \/ \E c \in Guests, d \in DateInputs : book_date(c, d)
    \/ \E c \in Guests : book_party(c, 2)
    \/ \E c \in Guests, t \in {960, 1080} : book_time(c, t)
    \/ \E c \in Guests : book_sets_name_phone(c)
    \/ \E c \in Guests : book_comment(c)
    \/ \E c \in Guests :
            /\ confirm_callback(c, "confirm_yes")
            /\ Len(reservations') <= MaxRes

\* two guests booking on the same day
SpecGuests == InitGuests /\ [][NextGuests]_vars

\* ------------------------------------------------------------------ claims
\* vocabulary of the claims, stated on the stored rows alone
Active(i) == reservations[i].status \in {"pending", "confirmed"}

Overlap(i, j) ==
    /\ reservations[i].starts_at < reservations[j].ends_at
    /\ reservations[j].starts_at < reservations[i].ends_at

BoundTables(i) ==
    {reservations[i].table_id, reservations[i].joined_table_id} \ {NULL}

\* the table ids held over [qs, qe) by pending or confirmed reservations
HeldOver(qs, qe) ==
    {t \in {x.id : x \in Tables} :
        \E i \in ResIds :
            /\ Active(i)
            /\ t \in BoundTables(i)
            /\ reservations[i].starts_at < qe
            /\ reservations[i].ends_at > qs}

\* the table ids that seat party_size and are not held over [qs, qe)
FreeFor(party_size, qs, qe) ==
    {x.id : x \in {y \in Tables : y.capacity >= party_size}} \ HeldOver(qs, qe)

\* the free tables of least capacity
BestFor(party_size, qs, qe) ==
    {t \in FreeFor(party_size, qs, qe) :
        \A x \in Tables : x.id = t =>
            \A y \in Tables : y.id \in FreeFor(party_size, qs, qe) =>
                x.capacity <= y.capacity}

\* C1: no table is bound, as table_id or joined_table_id, to two distinct
\* reservations that are both pending or confirmed and whose intervals
\* [starts_at, ends_at) overlap
C1_NoDoubleBooking ==
    \A i \in ResIds : \A j \in ResIds :
        (i # j /\ Active(i) /\ Active(j) /\ Overlap(i, j))
            => BoundTables(i) \cap BoundTables(j) = {}

\* C2: a canceled or stopped reservation never changes status again, and the
\* only status changes are pending -> confirmed, pending -> canceled and
\* confirmed -> canceled
C2_StatusTransitions ==
    [][\A i \in ResIds :
        reservations'[i].status # reservations[i].status =>
            <<reservations[i].status, reservations'[i].status>> \in
                {<<"pending", "confirmed">>, <<"pending", "canceled">>,
                 <<"confirmed", "canceled">>}]_vars

\* the step is a creation attempt (the final step answered "confirm_yes")
CreationAttempt(c) ==
    /\ conv[c].state = "CONFIRM"
    /\ last'.op = "confirm_callback"
    /\ last'.arg = c
    /\ last'.reply # "start_over"

Inserted == Len(reservations') = Len(reservations) + 1

\* C3: a creation that passes the daily-limit check inserts the row as
\* confirmed with a table bound exactly when party size is at most
\* AUTO_CONFIRM_MAX_PARTY and a table is free for it at that moment; otherwise
\* it inserts it as pending, with a free table of least capacity bound as a
\* hint if there is one and with table_id null if there is none
C3_CreationStatus ==
    [][\A c \in Chats :
        (CreationAttempt(c) /\ Inserted) =>
            LET row == reservations'[Len(reservations')]
                best == BestFor(row.party_size, row.starts_at, row.ends_at)
            IN  /\ row.party_size = conv[c].data.party
                /\ row.starts_at = _utc_iso(conv[c].data.starts_local)
                /\ IF row.party_size <= AUTO_CONFIRM_MAX_PARTY /\ best # {}
                   THEN row.status = "confirmed" /\ row.table_id \in best
                   ELSE /\ row.status = "pending"
                        /\ IF best # {} THEN row.table_id \in best
                           ELSE row.table_id = NULL]_vars

\* C3 witness: the creation just answered "confirmed" and the new row is
\* confirmed, of a party within the auto-confirm size, with a table bound
C3_Witness ==
    /\ last.op = "confirm_callback"
    /\ last.reply = "confirmed"
    /\ reservations[Len(reservations)].status = "confirmed"
    /\ reservations[Len(reservations)].party_size <= AUTO_CONFIRM_MAX_PARTY
    /\ reservations[Len(reservations)].table_id # NULL

\* the rows the claims count toward the daily limit of local date d: not
\* canceled, created within the UTC window of d, of requester user_id when
\* one is given
CountedOn(d, user_id) ==
    {i \in ResIds :
        /\ reservations[i].status # "canceled"
        /\ LocalDate(reservations[i].created_at) = d
        /\ (user_id # NULL => reservations[i].user_id = user_id)}

\* the count the final step compares with the limit
CountUsed(c) ==
    LET b == _utc_bounds_for_local_date(LocalDate(now))
    IN  sb_count_reservations_in_day(b[1], b[2],
            IF RES_LIMIT_SCOPE = "per_user" THEN sb_ensure_user(c) ELSE NULL)

\* C4: a creation attempt is rejected, and inserts no row, exactly when the
\* count taken for the daily limit is at least DAILY_RESERVATION_LIMIT
C4_RejectedIffLimit ==
    [][\A c \in Chats :
        CreationAttempt(c) =>
            /\ (last'.reply = "limit") <=>
                    (CountUsed(c) >= DAILY_RESERVATION_LIMIT)
            /\ (reservations' = reservations) <=>
                    (CountUsed(c) >= DAILY_RESERVATION_LIMIT)]_vars

\* C4 witness: the limit is 2, two counted reservations
\* were created today, and the attempt just made was rejected
C4_Witness ==
    /\ last.op = "confirm_callback"
    /\ last.reply = "limit"
    /\ Cardinality(CountedOn(LocalDate(now), NULL)) = DAILY_RESERVATION_LIMIT
    /\ Len(reservations) = DAILY_RESERVATION_LIMIT

\* C5: the count used by the daily-limit check is the number of reservations
\* that are not canceled (pending, confirmed or stopped) and were created in
\* the UTC window of the current local day, of one requester or of all
C5_CountIsNotCanceled ==
    \A user_id \in {NULL} \cup DOMAIN users :
        LET b == _utc_bounds_for_local_date(LocalDate(now))
        IN  sb_count_reservations_in_day(b[1], b[2], user_id)
                = Cardinality(CountedOn(LocalDate(now), user_id))

\* the step is /confirm res_id on a row that is not confirmed yet
ConfirmAttempt(res_id) ==
    /\ last'.op = "admin_confirm"
    /\ last'.arg = res_id
    /\ reservations[res_id].status # "confirmed"

\* C6: administrator confirm on a reservation with no table bound resolves a
\* table for its party size and interval again; when no table is free the
\* operation is refused: status and table_id stay as they were, no reminder
\* is scheduled or sent and the requester gets no message
C6_ConfirmWithoutTable ==
    [][\A res_id \in ResIds :
        (ConfirmAttempt(res_id) /\ reservations[res_id].table_id = NULL) =>
            LET r == reservations[res_id]
            IN  IF FreeFor(r.party_size, r.starts_at, r.ends_at) = {}
                THEN /\ reservations' = reservations
                     /\ jobs' = jobs
                     /\ sent' = sent
                     /\ last'.reply = "no_table"
                     /\ last'.told = NULL
                ELSE /\ reservations'[res_id].status = "confirmed"
                     /\ reservations'[res_id].table_id \in
                            BestFor(r.party_size, r.starts_at, r.ends_at)]_vars

\* C6 witness: /confirm was just refused for a pending reservation with no
\* table bound because no table is free for it
C6_Witness ==
    /\ last.op = "admin_confirm"
    /\ last.reply = "no_table"
    /\ last.arg \in ResIds
    /\ reservations[last.arg].status = "pending"
    /\ reservations[last.arg].table_id = NULL
    /\ FreeFor(reservations[last.arg].party_size,
               reservations[last.arg].starts_at,
               reservations[last.arg].ends_at) = {}

\* the live jobs named after res_id once the step is taken
JobsNamedAfter(res_id) == {k \in DOMAIN jobs' : jobs'[k].name = res_id}

\* C7: an administrator confirm that sets the status to confirmed binds a
\* table (the one already bound, or one just found) and schedules the
\* reminder in the same step: with the fire time still ahead there is then
\* exactly one live job for the reservation, due at start minus lead time
C7_ConfirmBindsAndSchedules ==
    [][\A res_id \in ResIds :
        (ConfirmAttempt(res_id)
            /\ reservations'[res_id].status = "confirmed") =>
            LET r == reservations[res_id]
                when == r.starts_at - REMINDER_HOURS_BEFORE * MinutesPerHour
            IN  /\ reservations'[res_id].table_id # NULL
                /\ r.table_id # NULL =>
                        reservations'[res_id].table_id = r.table_id
                /\ when > now =>
                        /\ Cardinality(JobsNamedAfter(res_id)) = 1
                        /\ \A k \in JobsNamedAfter(res_id) :
                                jobs'[k].when = when
                /\ (when <= now /\ r.starts_at > now) =>
                        /\ JobsNamedAfter(res_id) = {}
                        /\ sent'[res_id] = Min(sent[res_id] + 1, SentCap)]_vars

\* C7 witness: /confirm just succeeded, the fire time is still ahead and a
\* job for the reservation is live
C7_Witness ==
    /\ last.op = "admin_confirm"
    /\ last.reply = "confirmed"
    /\ reservations[last.arg].status = "confirmed"
    /\ reservations[last.arg].table_id # NULL
    /\ reservations[last.arg].starts_at
            - REMINDER_HOURS_BEFORE * MinutesPerHour > now
    /\ JobsNamed(last.arg) # {}

\* C8: a reservation that is confirmed while its start is still ahead, and
\* stays confirmed, has had a reminder sent by the time its start comes (the
\* process keeps running and due jobs run before the clock moves on)
C8_ReminderBeforeStart ==
    [][\A i \in ResIds :
        (/\ reservations[i].status = "confirmed"
         /\ reservations'[i].status = "confirmed"
         /\ now < reservations[i].starts_at
         /\ now' >= reservations[i].starts_at) => sent'[i] >= 1]_vars

\* C9: when the process starts again, every confirmed reservation whose
\* start is still ahead gets a live reminder job or has its reminder sent
\* by the start-up pass
C9_RecoveryAfterRestart ==
    [][last'.op = "restart" =>
        \A i \in ResIds :
            (reservations'[i].status = "confirmed"
                /\ reservations'[i].starts_at > now') =>
                    \/ JobsNamedAfter(i) # {}
                    \/ sent'[i] > sent[i]
                    \/ sent'[i] = SentCap]_vars

\* C10: the job queue holds at most one live reminder job per reservation id
C10_OneJobPerReservation ==
    \A i \in ResIds : Cardinality(JobsNamed(i)) <= 1

\* C10 witness: the administrator has confirmed two reservations, the
\* second just now, and each has exactly one live job
C10_Witness ==
    /\ last.op = "admin_confirm"
    /\ last.reply = "confirmed"
    /\ Cardinality(JobsNamed(last.arg)) = 1
    /\ \E i \in ResIds : i # last.arg /\ Cardinality(JobsNamed(i)) = 1

\* C11: a call of the scheduler for a reservation id that already has a
\* pending timer, made with a fire time still ahead, leaves exactly one timer
\* for that id, due at the start time of this call minus the lead time; the
\* timer found is gone and cannot fire
C11_RescheduleReplaces ==
    [][\A res_id \in ResIds :
        (/\ last'.op = "_schedule_or_send_reminder"
         /\ last'.arg = res_id
         /\ JobsNamed(res_id) # {}
         /\ last'.starts_utc - REMINDER_HOURS_BEFORE * MinutesPerHour > now)
        => /\ Cardinality(JobsNamedAfter(res_id)) = 1
           /\ \A k \in JobsNamedAfter(res_id) :
                jobs'[k].when = last'.starts_utc
                                - REMINDER_HOURS_BEFORE * MinutesPerHour
           /\ \A k \in DOMAIN jobs' :
                jobs'[k].name # res_id =>
                    \E j \in DOMAIN jobs : jobs[j] = jobs'[k]]_vars

\* C11 witness: the call just made found a timer due at another time and
\* left one timer, due at the time computed from this call
C11_Witness ==
    /\ last.op = "_schedule_or_send_reminder"
    /\ last.found # {}
    /\ last.starts_utc - REMINDER_HOURS_BEFORE * MinutesPerHour \notin last.found
    /\ Cardinality(JobsNamed(last.arg)) = 1
    /\ \A k \in JobsNamed(last.arg) :
            jobs[k].when = last.starts_utc
                           - REMINDER_HOURS_BEFORE * MinutesPerHour

\* C12: when a reminder timer fires for a reservation that is gone, is not
\* confirmed at that moment, or whose start is not ahead, no reminder message
\* is sent; so a reservation canceled between scheduling and fire time gets
\* no reminder
C12_StaleReminderSilent ==
    [][last'.op = "reminder_job" =>
        LET res_id == last'.arg
        IN  (\/ res_id \notin ResIds
             \/ reservations[res_id].status # "confirmed"
             \/ reservations[res_id].starts_at <= now)
            => /\ sent' = sent
               /\ last'.told = NULL]_vars

\* C12 witness: the timer of a reservation that was canceled after it was
\* scheduled has just fired, and no reminder has been sent for it
C12_Witness ==
    /\ last.op = "reminder_job"
    /\ last.reply = "stale_status"
    /\ last.arg \in ResIds
    /\ reservations[last.arg].status = "canceled"
    /\ reservations[last.arg].starts_at > now
    /\ sent[last.arg] = 0

\* the tables that seat party_size
Fits(party_size) == {t \in Tables : t.capacity >= party_size}

\* C13: the resolver returns a table that seats the party, is not held over
\* the interval and is no larger than any other such table; it returns none
\* exactly when every table that seats the party is held; and the call
\* leaves the store as it was
C13_ResolverSmallestFit ==
    [][last'.op = "sb_find_available_table" =>
        LET party_size == last'.args[1]
            held == HeldOver(last'.args[2], last'.args[3])
            t == last'.result
        IN  /\ (t = NULL) <=> (\A x \in Fits(party_size) : x.id \in held)
            /\ t # NULL =>
                /\ t \notin held
                /\ \E x \in Fits(party_size) :
                    /\ x.id = t
                    /\ \A y \in Fits(party_size) :
                            y.id \notin held => x.capacity <= y.capacity
            /\ reservations' = reservations
            /\ users' = users
            /\ jobs' = jobs]_vars

\* C13 witness: the smallest table that seats the party is held over the
\* interval asked about, and the resolver returned the larger one
C13_Witness ==
    /\ last.op = "sb_find_available_table"
    /\ last.args[1] = 2
    /\ 1 \in HeldOver(last.args[2], last.args[3])
    /\ last.result = 2

\* C14: the held set of [qs, qe) is the set of table ids bound, as table_id
\* or joined_table_id, to a pending or confirmed reservation with
\* starts_at < qe and ends_at > qs; a reservation that only touches the
\* interval, or is canceled or stopped, adds nothing
C14_HeldSet ==
    [][last'.op = "sb_reserved_table_ids" =>
        LET qs == last'.args[1]
            qe == last'.args[2]
        IN  \A t \in {x.id : x \in Tables} \cup last'.result :
                t \in last'.result <=>
                    \E i \in ResIds :
                        /\ reservations[i].status \in {"pending", "confirmed"}
                        /\ t # NULL
                        /\ \/ reservations[i].table_id = t
                           \/ reservations[i].joined_table_id = t
                        /\ reservations[i].starts_at < qe
                        /\ reservations[i].ends_at > qs]_vars

\* C14 witness: of two stored reservations one is confirmed, overlaps the
\* interval and binds tables 1 and 2 as table and joined table, the other is
\* pending on table 1 and ends where the interval starts; for the interval
\* of the first alone the held set is {1, 2}
C14_Witness ==
    /\ last.op = "sb_reserved_table_ids"
    /\ last.result = {1, 2}
    /\ \E i \in ResIds :
        /\ reservations[i].status = "confirmed"
        /\ reservations[i].table_id = 1
        /\ reservations[i].joined_table_id = 2
        /\ reservations[i].starts_at = last.args[1]
        /\ reservations[i].ends_at = last.args[2]
    /\ \E i \in ResIds :
        /\ reservations[i].status = "pending"
        /\ reservations[i].ends_at = last.args[1]

\* C15: for a weekday without a window the slot sequence is empty; for a
\* window (open, last) it is open, open + step, open + 2 step, ... up to the
\* greatest such time that is at most last
C15_SlotsOfDate ==
    [][last'.op = "_slots_for_date" =>
        LET rules == last'.args[1]
            wd == last'.args[2] % 7
            slots == last'.result
        IN  IF wd \notin DOMAIN rules
            THEN slots = <<>>
            ELSE LET open == rules[wd][1]
                     lastT == rules[wd][2]
                 IN  /\ \A i \in DOMAIN slots :
                            /\ slots[i] = open + (i - 1) * TIME_SLOT_STEP_MIN
                            /\ slots[i] >= open
                            /\ slots[i] <= lastT
                     /\ \A i \in DOMAIN slots :
                            i > 1 => slots[i - 1] < slots[i]
                     /\ open + Len(slots) * TIME_SLOT_STEP_MIN > lastT
                     /\ open = lastT => slots = <<open>>]_vars

\* C15 witness: the window asked about opens and closes at the same time
\* and the sequence returned is that one slot
C15_Witness ==
    /\ last.op = "_slots_for_date"
    /\ (last.args[2] % 7) \in DOMAIN last.args[1]
    /\ last.args[1][last.args[2] % 7][1] = last.args[1][last.args[2] % 7][2]
    /\ Len(last.result) = 1

\* a blocked date typed at the date step is refused, none is kept in the
\* conversation and none is booked
BlockedDateRefused ==
    /\ (last.op = "book_date" /\ last.reply = "blocked") =>
            conv[last.arg].state = "DATE"
    /\ \A c \in Chats : conv[c].data.date \notin BLOCKED_DATES
    /\ \A i \in ResIds :
            LocalDate(reservations[i].starts_at) \notin BLOCKED_DATES

\* C16: a date on the block-list is never among the date choices /book
\* presents, a blocked date typed by the guest is refused at the date step,
\* and no reservation is created for a blocked date
C16_BlockedDateExcluded ==
    /\ last.op = "book" => _date_choices \cap BLOCKED_DATES = {}
    /\ BlockedDateRefused

\* C17: whatever becomes of the messages, an administrator confirm that went
\* through leaves the reservation stored as confirmed, an administrator
\* cancel leaves it stored as canceled, and a creation leaves its row in the
\* store
C17_FailedSendKeepsChange ==
    [][/\ \A res_id \in ResIds :
            /\ (/\ last'.op = "admin_confirm"
                /\ last'.arg = res_id
                /\ last'.reply \in {"confirmed", "no_user"})
               => reservations'[res_id].status = "confirmed"
            /\ (/\ last'.op = "admin_cancel"
                /\ last'.arg = res_id
                /\ last'.reply = "canceled")
               => reservations'[res_id].status = "canceled"
       /\ \A c \in Chats :
            (CreationAttempt(c) /\ last'.reply \in {"confirmed", "pending"})
            => /\ Inserted
               /\ reservations'[Len(reservations')].status = last'.reply]_vars

\* C17 witness: /confirm was just carried out, the requester (who has a
\* users row) was not reached, and the reservation is stored as confirmed
C17_Witness ==
    /\ last.op = "admin_confirm"
    /\ last.reply = "confirmed"
    /\ last.told = NULL
    /\ sb_get_user(reservations[last.arg].user_id) # NULL
    /\ reservations[last.arg].status = "confirmed"

\* C18: a creation attempt rejected for the daily limit, and a date refused
\* at the date step (blocked, closed, too early), insert no reservation row
\* and no requester row and modify no row
C18_RejectionChangesNothing ==
    [][\A c \in Guests :
        /\ (CreationAttempt(c) /\ last'.reply = "limit")
           => /\ reservations' = reservations
              /\ users' = users
        /\ (/\ last'.op = "book_date"
            /\ last'.arg = c
            /\ last'.reply \in {"blocked", "closed", "too_early",
                                "only_tomorrow"})
           => /\ reservations' = reservations
              /\ users' = users]_vars

\* C19: /confirm on a reservation already confirmed and /cancel_res on a
\* reservation already canceled write no reservation field, add or remove no
\* reminder timer, send no reminder and send the requester nothing
C19_TerminalNoOp ==
    [][\A res_id \in ResIds :
        (\/ /\ last'.op = "admin_confirm"
            /\ last'.arg = res_id
            /\ reservations[res_id].status = "confirmed"
         \/ /\ last'.op = "admin_cancel"
            /\ last'.arg = res_id
            /\ reservations[res_id].status = "canceled")
        => /\ reservations' = reservations
           /\ jobs' = jobs
           /\ sent' = sent
           /\ last'.told = NULL
           /\ last'.reply \in {"already_confirmed", "already_canceled"}]_vars

\* C19 witness: /cancel_res was just sent for a reservation already
\* canceled, whose timer from an earlier /confirm is still in the queue
C19_Witness ==
    /\ last.op = "admin_cancel"
    /\ last.reply = "already_canceled"
    /\ reservations[last.arg].status = "canceled"
    /\ JobsNamed(last.arg) # {}

\* the table ids bound to pending or confirmed reservations other than i
\* that overlap [qs, qe), in the state the step leads to
HeldByOthersAfter(i, qs, qe) ==
    {t \in {x.id : x \in Tables} :
        \E j \in ResIds \ {i} :
            /\ reservations'[j].status \in {"pending", "confirmed"}
            /\ t \in {reservations'[j].table_id,
                      reservations'[j].joined_table_id}
            /\ reservations'[j].starts_at < qe
            /\ reservations'[j].ends_at > qs}

\* C20: /cancel_res on a reservation that is not canceled writes its status
\* and nothing else (table_id and joined_table_id stay); from then on the
\* reservation adds no table to the held set of its interval, and the
\* resolver may return its table if no other reservation holds it
C20_CancelWritesStatusOnly ==
    [][\A res_id \in ResIds :
        (/\ last'.op = "admin_cancel"
         /\ last'.arg = res_id
         /\ reservations[res_id].status # "canceled")
        => LET r == reservations[res_id]
               others == HeldByOthersAfter(res_id, r.starts_at, r.ends_at)
           IN  /\ reservations' =
                    [reservations EXCEPT ![res_id].status = "canceled"]
               /\ sb_reserved_table_ids(r.starts_at, r.ends_at)' = others
               /\ (r.table_id # NULL /\ r.table_id \notin others) =>
                    \E t \in Tables :
                        /\ t.id \in sb_find_available_table(
                                r.party_size, r.starts_at, r.ends_at)'
                        /\ \A x \in Tables :
                                x.id = r.table_id => t.capacity <= x.capacity
           ]_vars

\* C20 witness: /cancel_res just canceled a reservation that keeps its
\* table binding, the table is not in the held set of its interval and the
\* resolver returns it for that interval
C20_Witness ==
    /\ last.op = "admin_cancel"
    /\ last.reply = "canceled"
    /\ reservations[last.arg].status = "canceled"
    /\ reservations[last.arg].table_id # NULL
    /\ reservations[last.arg].table_id \notin
            sb_reserved_table_ids(reservations[last.arg].starts_at,
                                  reservations[last.arg].ends_at)
    /\ reservations[last.arg].table_id \in
            sb_find_available_table(reservations[last.arg].party_size,
                                    reservations[last.arg].starts_at,
                                    reservations[last.arg].ends_at)

\* C21: a call of the scheduler whose fire time (start minus the lead time)
\* is not after now while the start is still after now sends the reminder at
\* once and leaves no timer for that id; a call whose fire time is after now
\* leaves exactly one timer for that id, due at the fire time, and sends
\* nothing; a call whose start is not after now sends nothing and leaves no
\* timer for that id
C21_ScheduleOrSend ==
    [][\A res_id \in ResIds :
        (/\ last'.op = "_schedule_or_send_reminder"
         /\ last'.arg = res_id)
        => LET starts_utc == last'.starts_utc
               when == starts_utc - REMINDER_HOURS_BEFORE * MinutesPerHour
           IN  /\ (when <= now /\ starts_utc > now)
                    => /\ sent' = [sent EXCEPT
                                    ![res_id] = Min(@ + 1, SentCap)]
                       /\ JobsNamedAfter(res_id) = {}
               /\ when > now
                    => /\ Cardinality(JobsNamedAfter(res_id)) = 1
                       /\ \A k \in JobsNamedAfter(res_id) :
                            jobs'[k].when = when
                       /\ sent' = sent
               /\ starts_utc <= now
                    => /\ sent' = sent
                       /\ JobsNamedAfter(res_id) = {}]_vars

\* C21 witness: the call just made was inside the lead time of a start still
\* ahead; the first reminder for that id is out and no timer is left for it
C21_Witness ==
    /\ last.op = "_schedule_or_send_reminder"
    /\ last.starts_utc - REMINDER_HOURS_BEFORE * MinutesPerHour <= now
    /\ last.starts_utc > now
    /\ sent[last.arg] = 1
    /\ JobsNamed(last.arg) = {}

\* ------------------------------------------- the administrator's commands
\* /confirm and /cancel_res typed over any store the bot may find
NextAdmin ==
    \/ \E res_id \in AdminArgs : admin_confirm(res_id)
    \/ \E res_id \in AdminArgs : admin_cancel(res_id)

SpecAdmin == InitStore /\ [][NextAdmin]_vars

\* C22: administrator confirm on a pending reservation that has a table bound
\* sets its status to confirmed and leaves every column of it but the status
\* as it was, table_id included, whether or not the resolver would still
\* find a table for it and whatever other reservations hold that table
C22_ConfirmKeepsBoundTable ==
    [][\A res_id \in ResIds :
        (/\ ConfirmAttempt(res_id)
         /\ reservations[res_id].status = "pending"
         /\ reservations[res_id].table_id # NULL)
        => /\ reservations' =
                [reservations EXCEPT ![res_id].status = "confirmed"]
           /\ last'.reply = "confirmed"]_vars

\* C22 witness: /confirm just confirmed a reservation on the table it was
\* bound to although another pending or confirmed reservation holds that
\* table over an overlapping interval and no other table was free for it
C22_Witness ==
    /\ last.op = "admin_confirm"
    /\ last.reply = "confirmed"
    /\ last.arg \in ResIds
    /\ LET r == reservations[last.arg]
       IN  /\ r.status = "confirmed"
           /\ r.table_id # NULL
           /\ FreeFor(r.party_size, r.starts_at, r.ends_at) = {}
           /\ \E j \in ResIds \ {last.arg} :
                /\ Active(j)
                /\ Overlap(last.arg, j)
                /\ r.table_id \in BoundTables(j)

\* C23: administrator confirm or cancel typed with an id no reservation has
\* changes nothing that is stored, registers and removes no timer, sends no
\* reminder and no message to a requester, and answers that the reservation
\* was not found; this holds of every such step, so also of its repetitions
C23_UnknownIdNoEffect ==
    [][(/\ last'.op \in {"admin_confirm", "admin_cancel"}
        /\ last'.arg \notin ResIds)
       => /\ reservations' = reservations
          /\ users' = users
          /\ jobs' = jobs
          /\ sent' = sent
          /\ last'.reply = "not_found"
          /\ last'.told = NULL]_vars

\* C23 witness: /cancel_res was just answered with "not found" while the
\* store holds a pending or confirmed reservation and a timer is registered
C23_Witness ==
    /\ last.op = "admin_cancel"
    /\ last.reply = "not_found"
    /\ last.arg \notin ResIds
    /\ \E i \in ResIds : Active(i)
    /\ jobs # <<>>

\* C24: over any sequence of administrator confirms and cancels, timer
\* firings and restarts, at most one reminder message is ever sent for a
\* reservation id
C24_AtMostOneReminder ==
    \A i \in DOMAIN sent : sent[i] <= 1

\* ------------------------------------------------ one day of bookings
\* most reservation rows inserted in the day of bookings
MaxDayRes == 3

\* one guest booking 16:00 of day 1 for two again and again on day 0, and the
\* administrator's commands; the clock stands still
NextDay ==
    \/ \E c \in Chats : book(c)
    \/ \E c \in Chats : book_date(c, 1)
    \/ \E c \in Chats : book_party(c, 2)
    \/ \E c \in Chats : book_time(c, 960)
    \/ \E c \in Chats : book_sets_name_phone(c)
    \/ \E c \in Chats : book_comment(c)
    \/ \E c \in Chats :
            /\ confirm_callback(c, "confirm_yes")
            /\ Len(reservations') <= MaxDayRes
    \/ \E res_id \in AdminArgs : admin_confirm(res_id)
    \/ \E res_id \in AdminArgs : admin_cancel(res_id)

SpecDay == Init /\ [][NextDay]_vars

\* C25: in every reachable state, for each local calendar day, the
\* reservations created on that day whose status is pending or confirmed
\* number at most DAILY_RESERVATION_LIMIT (the limit is global)
C25_DailyLimitHolds ==
    \A d \in {LocalDate(reservations[i].created_at) : i \in ResIds} :
        Cardinality({i \in ResIds :
                        /\ LocalDate(reservations[i].created_at) = d
                        /\ Active(i)}) <= DAILY_RESERVATION_LIMIT

\* C26: in every reachable state every confirmed reservation has a table
\* bound (table_id is not null)
C26_ConfirmedHasTable ==
    \A i \in ResIds :
        reservations[i].status = "confirmed" => reservations[i].table_id # NULL

\* C26 witness: /confirm was just refused for want of a table, the
\* reservation it was typed for has no table bound and is not confirmed,
\* while another reservation is confirmed on a table
C26_Witness ==
    /\ last.op = "admin_confirm"
    /\ last.reply = "no_table"
    /\ last.arg \in ResIds
    /\ reservations[last.arg].table_id = NULL
    /\ reservations[last.arg].status # "confirmed"
    /\ \E j \in ResIds :
        /\ reservations[j].status = "confirmed"
        /\ reservations[j].table_id # NULL

\* ----------------------------------------------------- the start-up pass
\* on_startup is defined but build_app does not register it; here it is
\* called once, just after the process started inside the lead time of the
\* 16:00 slot of day 1, over two confirmed reservations of guest 11 (tables 1
\* and 2), each at 16:00 or 18:00. The handlers and the job queue share the
\* event loop with it and run only while it awaits a send; the store is
\* remote and may be written from outside at any moment
InitRecovery ==
    /\ now = 2100
    /\ users = <<11>>
    /\ \E s1, s2 \in {2220, 2340} :
        reservations = << Row(1, 1, NULL, 2, s1, "confirmed", 600),
                          Row(1, 2, NULL, 2, s2, "confirmed", 600) >>
    /\ jobs = <<>>
    /\ sent = <<0, 0>>
    /\ conv = [c \in Chats |-> [state |-> "END", data |-> NoData]]
    /\ last = Did("restart", NULL, "")
    /\ startup = NotStarted

\* sb_get_confirmed_future: the ids of the confirmed reservations that start
\* after now, by start time (the order of equal start times is the store's)
sb_get_confirmed_future ==
    LET hits == {i \in ResIds : /\ reservations[i].status = "confirmed"
                                /\ reservations[i].starts_at > now}
    IN  {rows \in [1..Cardinality(hits) -> hits] :
            /\ \A a, b \in DOMAIN rows : a # b => rows[a] # rows[b]
            /\ \A a, b \in DOMAIN rows :
                a < b => reservations[rows[a]].starts_at
                            <= reservations[rows[b]].starts_at}

\* on_startup, up to its loop: the rows are read once
on_startup_read ==
    /\ startup.pc = "idle"
    /\ \E rows \in sb_get_confirmed_future :
        startup' = [pc |-> "loop", rows |-> rows, yielded |-> FALSE]
    /\ last' = Did("on_startup", NULL, "read")
    /\ UNCHANGED <<now, users, reservations, jobs, sent, conv>>

\* one turn of the loop of on_startup, for the row read first among those
\* left: the status read is not looked at again; the loop gives way to the
\* handlers only where it awaits the send
on_startup_row ==
    /\ startup.pc = "loop"
    /\ startup.rows # <<>>
    /\ LET res_id == Head(startup.rows)
           r == sb_get_reservation(res_id)
           u == sb_get_user(r.user_id)
           when == r.starts_at - REMINDER_HOURS_BEFORE * MinutesPerHour
       IN  /\ IF u = NULL
              THEN UNCHANGED <<jobs, sent>>
              ELSE _schedule_or_send_reminder(res_id, u, r.starts_at)
           /\ startup' = [startup EXCEPT
                            !.rows = Tail(@),
                            !.yielded = /\ u # NULL
                                        /\ when <= now
                                        /\ r.starts_at > now]
           /\ last' = Did("on_startup", res_id, "row")
    /\ UNCHANGED <<now, users, reservations, conv>>

\* on_startup returns
on_startup_done ==
    /\ startup.pc = "loop"
    /\ startup.rows = <<>>
    /\ startup' = [pc |-> "done", rows |-> <<>>, yielded |-> FALSE]
    /\ last' = Did("on_startup", NULL, "done")
    /\ UNCHANGED <<now, users, reservations, jobs, sent, conv>>

\* the event loop is free for a handler or a job
LoopFree == startup.pc # "loop" \/ startup.yielded

NextRecovery ==
    \/ on_startup_read
    \/ on_startup_row
    \/ on_startup_done
    \/ \E res_id \in AdminArgs : LoopFree /\ admin_confirm(res_id)
    \/ \E res_id \in AdminArgs : LoopFree /\ admin_cancel(res_id)
    \/ \E k \in DOMAIN jobs : LoopFree /\ reminder_job(k)
    \/ \E res_id \in ResIds : StopOutOfBand(res_id)
    \/ Tick

SpecRecovery == InitRecovery /\ [][NextRecovery]_vars

\* the step sends a reminder for reservation i at once, from /confirm or
\* from the start-up pass
ImmediateSend(i) ==
    /\ last'.op \in {"admin_confirm", "on_startup"}
    /\ last'.arg = i
    /\ sent'[i] > sent[i]

AskedStart(data) == _utc_iso(CombineLocal(data.date, data.time))
AskedEnd(data) == AskedStart(data) + RESERVATION_DURATION_MIN

\* C28: the conversation moves on from the time step only when a table is
\* free for the party over the interval of the time given; when none is, it
\* stays at the time step and the steps after it are never entered with that
\* time: they are entered only in order, from the time step on, and keep the
\* date, party size and time the time step passed. So a reservation created
\* with no table bound is for a time that had a free table at the time step
\* and has none at the final step
C28_TimeStepNeedsTable ==
    [][\A c \in Chats :
        /\ (conv'[c].state = "SETS" /\ conv[c] # conv'[c])
            => /\ conv[c].state = "TIME_STATE"
               /\ last'.op = "book_time"
               /\ FreeFor(conv'[c].data.party, AskedStart(conv'[c].data),
                          AskedEnd(conv'[c].data)) # {}
        /\ (last'.op = "book_time" /\ last'.arg = c
                /\ last'.reply = "no_table")
            => /\ conv'[c].state = "TIME_STATE"
               /\ reservations' = reservations
        /\ (last'.op = "book_time" /\ last'.arg = c
                /\ last'.reply \notin {"bad_time", "not_a_slot"}
                /\ FreeFor(conv'[c].data.party, AskedStart(conv'[c].data),
                           AskedEnd(conv'[c].data)) = {})
            => /\ last'.reply = "no_table"
               /\ conv'[c].state = "TIME_STATE"
        /\ (conv'[c].state = "COMMENT" /\ conv[c] # conv'[c])
            => /\ conv[c].state = "SETS"
               /\ conv'[c].data = conv[c].data
        /\ (conv'[c].state = "CONFIRM" /\ conv[c] # conv'[c])
            => /\ conv[c].state = "COMMENT"
               /\ conv'[c].data.date = conv[c].data.date
               /\ conv'[c].data.party = conv[c].data.party
               /\ conv'[c].data.time = conv[c].data.time
               /\ conv'[c].data.starts_local =
                    CombineLocal(conv[c].data.date, conv[c].data.time)
        /\ (CreationAttempt(c) /\ Inserted
                /\ reservations'[Len(reservations')].table_id = NULL)
            => LET row == reservations'[Len(reservations')]
               IN  /\ row.status = "pending"
                   /\ row.party_size = conv[c].data.party
                   /\ row.starts_at = AskedStart(conv[c].data)
                   /\ FreeFor(row.party_size, row.starts_at,
                              row.ends_at) = {}]_vars

\* C28 witness: the final step just inserted a pending reservation with no
\* table bound, for a party and interval whose only fitting table was free
\* at the time step and is held by an earlier reservation now
C28_Witness ==
    /\ last.op = "confirm_callback"
    /\ last.reply = "pending"
    /\ reservations # <<>>
    /\ LET row == reservations[Len(reservations)]
       IN  /\ row.status = "pending"
           /\ row.table_id = NULL
           /\ \E j \in ResIds \ {Len(reservations)} :
                /\ Active(j)
                /\ Overlap(j, Len(reservations))
                /\ BoundTables(j) \cap
                        {x.id : x \in Fits(row.party_size)} # {}

====
